---------------------------- MODULE Spec2Model ----------------------------
(***************************************************************************)
(* A model of chispa's card-assembly orchestrator: cmd_batch and cmd_add   *)
(* (src/chispa/cli.py), create_card_for_meaning and the note assembly of   *)
(* src/chispa/anki_client.py.                                              *)
(*                                                                         *)
(* Text is modelled as a sequence of one-character strings, so that the    *)
(* string operations of the code (strip, split, startswith, lower, the     *)
(* regular-expression searches) are computed as Python computes them.      *)
(* A fixed piece of text that the code only ever concatenates ("<br>",     *)
(* the image and audio reference templates) is kept as one element.        *)
(***************************************************************************)
EXTENDS Integers, Sequences, FiniteSets, TLC

-----------------------------------------------------------------------------
(* Python values *)

\* Python's None where the code passes "str | None" (hint, context).
None == <<"<None>">>

\* Truthiness of a "str | None" value: "if hint:", "if context:".
truthy(x) == x # None /\ x # <<>>

\* The characters str.strip() removes.
whitespace == {" ", "\n", "\t"}

RECURSIVE lstrip(_)
lstrip(s) == IF s # <<>> /\ Head(s) \in whitespace THEN lstrip(Tail(s)) ELSE s

RECURSIVE rstrip(_)
rstrip(s) ==
    IF s # <<>> /\ s[Len(s)] \in whitespace
    THEN rstrip(SubSeq(s, 1, Len(s) - 1))
    ELSE s

\* str.strip()
strip(s) == rstrip(lstrip(s))

\* str.find(c) + 1: the first position of character c in s, 0 when absent.
find(s, c) ==
    IF \E i \in 1..Len(s) : s[i] = c
    THEN CHOOSE i \in 1..Len(s) : s[i] = c /\ \A j \in 1..(i - 1) : s[j] # c
    ELSE 0

\* "c in s"
contains(s, c) == find(s, c) # 0

\* str.split(sep): every piece between separators, at least one piece.
RECURSIVE split(_, _)
split(s, sep) ==
    LET i == find(s, sep)
    IN  IF i = 0 THEN <<s>>
        ELSE <<SubSeq(s, 1, i - 1)>> \o split(SubSeq(s, i + 1, Len(s)), sep)

\* str.split(sep, 1): split on the first separator only.
split_once(s, sep) ==
    LET i == find(s, sep)
    IN  IF i = 0 THEN <<s>>
        ELSE <<SubSeq(s, 1, i - 1), SubSeq(s, i + 1, Len(s))>>

\* sep.join(parts)
RECURSIVE join(_, _)
join(sep, parts) ==
    IF parts = <<>> THEN <<>>
    ELSE IF Len(parts) = 1 THEN parts[1]
    ELSE parts[1] \o <<sep>> \o join(sep, Tail(parts))

\* str.startswith(c) for a one-character prefix.
startswith(s, c) == s # <<>> /\ Head(s) = c

\* str.lower() on the letters of the model's alphabet.
lower_char(c) ==
    CASE c = "A" -> "a"
      [] c = "B" -> "b"
      [] c = "R" -> "r"
      [] c = "S" -> "s"
      [] OTHER -> c

lower(s) == [i \in 1..Len(s) |-> lower_char(s[i])]

\* int(choice): the value of a decimal numeral; Python raises ValueError for
\* anything else (the empty string included), modelled as ValueError.
ValueError == -1000

digit_value(c) ==
    CASE c = "0" -> 0
      [] c = "1" -> 1
      [] c = "2" -> 2
      [] c = "3" -> 3
      [] OTHER -> ValueError

RECURSIVE int(_)
int(s) ==
    IF s = <<>> \/ \E i \in 1..Len(s) : digit_value(s[i]) = ValueError
    THEN ValueError
    ELSE IF Len(s) = 1 THEN digit_value(s[1])
    ELSE 10 * int(SubSeq(s, 1, Len(s) - 1)) + digit_value(s[Len(s)])

\* str.split() with no argument: the whitespace-separated words of s.
RECURSIVE words_of(_)
words_of(s) ==
    LET t == lstrip(s)
    IN  IF t = <<>> THEN <<>>
        ELSE LET ends == {i \in 1..Len(t) : t[i] \in whitespace}
                 n == IF ends = {} THEN Len(t) + 1
                      ELSE CHOOSE i \in ends : \A j \in ends : i <= j
             IN  <<SubSeq(t, 1, n - 1)>> \o words_of(SubSeq(t, n, Len(t)))

-----------------------------------------------------------------------------
(* src/chispa/config.py *)

ANKI_DECK_SPANISH == "esp"
ANKI_DECK_ENGLISH == "en"

-----------------------------------------------------------------------------
(* src/chispa/anki_client.py *)

\* What one HTTP exchange with AnkiConnect can do (requests.post,
\* raise_for_status, the "error" member of the reply).
RequestOutcomes == {"result", "error", "ConnectionError", "Timeout", "HTTPError"}

\* AnkiClient._request: how the call ends for each outcome of the exchange.
\* Only requests' ConnectionError is translated into AnkiConnectError; a read
\* timeout or an HTTP error status leaves as the requests exception it is.
_request(outcome) ==
    CASE outcome = "result" -> "return"
      [] outcome = "error" -> "AnkiConnectError"
      [] outcome = "ConnectionError" -> "AnkiConnectError"
      [] OTHER -> "RequestException"

\* AnkiClient.is_available: "True", "False", or the exception it lets through.
is_available(outcome) ==
    CASE _request(outcome) = "return" -> "True"
      [] _request(outcome) = "AnkiConnectError" -> "False"
      [] OTHER -> _request(outcome)

\* AnkiClient.add_note: "return" (a note id) or the exception raised.
add_note(outcome) == _request(outcome)

\* create_blank_for_word: one "___" per whitespace-separated word.
create_blank_for_word(word) ==
    join(" ", [i \in 1..Len(words_of(word)) |-> <<"_", "_", "_">>])

\* A match that tells upper case from lower case, a pattern compiled without
\* re.IGNORECASE: C20 fails with it.
matches_at_exact(sentence, word, i) ==
    /\ i + Len(word) - 1 <= Len(sentence)
    /\ \A k \in 1..Len(word) : sentence[i + k - 1] = word[k]

\* Whether the escaped word matches the sentence at position i, ignoring case.
matches_at(sentence, word, i) ==
    /\ i + Len(word) - 1 <= Len(sentence)
    /\ \A k \in 1..Len(word) : lower_char(sentence[i + k - 1]) = lower_char(word[k])

\* pattern.sub(blank, sentence) from position i on: leftmost matches, no overlap;
\* an empty pattern matches before every character and at the end.
RECURSIVE sub_from(_, _, _, _)
sub_from(sentence, word, blank, i) ==
    IF i > Len(sentence) THEN (IF word = <<>> THEN blank ELSE <<>>)
    ELSE IF word = <<>>
         THEN blank \o <<sentence[i]>> \o sub_from(sentence, word, blank, i + 1)
    ELSE IF matches_at(sentence, word, i)
         THEN blank \o sub_from(sentence, word, blank, i + Len(word))
    ELSE <<sentence[i]>> \o sub_from(sentence, word, blank, i + 1)

replace_word_with_blank(sentence, word, blank) == sub_from(sentence, word, blank, 1)

\* A create_card_data that appends the translation line whatever the
\* language: C15 fails with it.
create_card_data_translated(word, definition, example, example_blanked, translation, image_ref, audio_ref, lang) ==
    LET sentence_blanked ==
            IF example_blanked # <<>> THEN example_blanked
            ELSE replace_word_with_blank(example, word, create_blank_for_word(word))
    IN  [word |-> word,
         definition |-> definition,
         sentence_blank |-> sentence_blanked \o <<"<br>">> \o translation,
         sentence_full |-> example \o <<"<br>">> \o translation,
         image_ref |-> image_ref,
         audio_ref |-> audio_ref]

\* create_card_data: the AnkiCard built from the lookup fields.
create_card_data(word, definition, example, example_blanked, translation, image_ref, audio_ref, lang) ==
    LET sentence_blanked ==
            IF example_blanked # <<>> THEN example_blanked
            ELSE replace_word_with_blank(example, word, create_blank_for_word(word))
    IN  [word |-> word,
         definition |-> definition,
         sentence_blank |-> IF lang = "en" THEN sentence_blanked
                            ELSE sentence_blanked \o <<"<br>">> \o translation,
         sentence_full |-> IF lang = "en" THEN example
                           ELSE example \o <<"<br>">> \o translation,
         image_ref |-> image_ref,
         audio_ref |-> audio_ref]

-----------------------------------------------------------------------------
(* src/chispa/image_gen.py, src/chispa/audio_gen.py *)

get_image_reference(word) == <<"<img src=\"chispa_">> \o word \o <<".png\">">>

get_audio_reference(word) == <<"[sound:chispa_">> \o word \o <<".mp3]">>

-----------------------------------------------------------------------------
(* src/chispa/cli.py: create_card_for_meaning *)

\* A BLANK_PATTERN of three or more underscores, r"_{3,}": C10 fails with it.
BLANK_PATTERN_three(text) ==
    \E i \in 1..(Len(text) - 2) : text[i] = "_" /\ text[i + 1] = "_" /\ text[i + 2] = "_"

\* BLANK_PATTERN.search(text): a run of two or more underscores somewhere.
BLANK_PATTERN_search(text) ==
    \E i \in 1..(Len(text) - 1) : text[i] = "_" /\ text[i + 1] = "_"

\* What a media collaborator (generate_image, generate_audio) can do.
MediaOutcomes == {"ok", "raise"}

\* The image step (spinner.start, generate_image, get_image_reference,
\* spinner.stop): the calls made and the image_ref it leaves.
image_step(image_prompt, word, img) ==
    [calls |-> <<[call |-> "spinner.start", arg |-> <<>>],
                 [call |-> "generate_image", arg |-> image_prompt],
                 [call |-> "spinner.stop", arg |-> <<>>]>>,
     image_ref |-> IF img = "ok" THEN get_image_reference(word) ELSE <<>>]

\* The audio step: skipped when the text holds a blank, else one narration
\* call whose failure leaves audio_ref empty.
audio_step(audio_text, word, aud) ==
    IF BLANK_PATTERN_search(audio_text)
    THEN [calls |-> <<>>, audio_ref |-> <<>>]
    ELSE [calls |-> <<[call |-> "generate_audio", arg |-> audio_text]>>,
          audio_ref |-> IF aud = "ok" THEN get_audio_reference(word) ELSE <<>>]

\* The store step: client.add_note(card, deck) and what the function returns:
\* "True", "False" (AnkiConnectError caught) or the exception it lets through.
store_step(card, deck, req) ==
    [calls |-> <<[call |-> "add_note", arg |-> <<deck>>]>>,
     ret |-> CASE add_note(req) = "return" -> "True"
               [] add_note(req) = "AnkiConnectError" -> "False"
               [] OTHER -> add_note(req)]

\* A create_card_for_meaning that narrates before it draws: C26 fails with it.
create_card_for_meaning_audio_first(word, meaning, lang, img, aud, req) ==
    LET image_prompt == IF lang = "en" THEN meaning.example ELSE meaning.translation
        audio_text == meaning.example
        deck == IF lang = "en" THEN ANKI_DECK_ENGLISH ELSE ANKI_DECK_SPANISH
        image == image_step(image_prompt, word, img)
        audio == audio_step(audio_text, word, aud)
        card == create_card_data(word, meaning.definition, meaning.example,
                                 meaning.example_blanked, meaning.translation,
                                 image.image_ref, audio.audio_ref, lang)
        store == store_step(card, deck, req)
    IN  [calls |-> audio.calls \o image.calls \o store.calls,
         card |-> card,
         ret |-> store.ret]

\* create_card_for_meaning(word, meaning, client, lang), given what the image
\* call, the audio call and the AnkiConnect exchange do.  The result records
\* the collaborator calls in the order made, the card handed to add_note and
\* how the function ends.
create_card_for_meaning(word, meaning, lang, img, aud, req) ==
    LET image_prompt == IF lang = "en" THEN meaning.example ELSE meaning.translation
        audio_text == meaning.example
        deck == IF lang = "en" THEN ANKI_DECK_ENGLISH ELSE ANKI_DECK_SPANISH
        image == image_step(image_prompt, word, img)
        audio == audio_step(audio_text, word, aud)
        card == create_card_data(word, meaning.definition, meaning.example,
                                 meaning.example_blanked, meaning.translation,
                                 image.image_ref, audio.audio_ref, lang)
        store == store_step(card, deck, req)
    IN  [calls |-> image.calls \o audio.calls \o store.calls,
         card |-> card,
         ret |-> store.ret]

-----------------------------------------------------------------------------
(* src/chispa/dictionary.py: lookup_word *)

\* The other spelling the dictionary may give back for a word (casing).
capitalized(word) ==
    [i \in 1..Len(word) |->
        IF i = 1 THEN (CASE word[i] = "a" -> "A" [] word[i] = "b" -> "B" [] OTHER -> word[i])
        ELSE word[i]]

\* One element of the reply's "meanings" array, as lookup_word turns it into
\* a WordMeaning: English cards never carry a translation.
WordMeaning(m, lang) ==
    [definition |-> m.definition,
     part_of_speech |-> m.part_of_speech,
     example |-> m.example,
     example_blanked |-> m.example_blanked,
     translation |-> IF lang = "en" THEN <<>> ELSE m.example_english]

\* lookup_word(word, context, lang) for a parsed reply `data`: the reply's
\* "word" when it has one, else the spelling asked for.
lookup_word(word, lang, data) ==
    [word |-> IF data.word = None THEN word ELSE data.word,
     meanings |-> [i \in 1..Len(data.meanings) |-> WordMeaning(data.meanings[i], lang)]]

-----------------------------------------------------------------------------
(* src/chispa/cli.py: the batch file *)

\* path.read_text().strip().split("\n")
read_lines(text) == split(strip(text), "\n")

\* words_with_hint[word] = hint
dict_set(d, k, v) == [x \in (DOMAIN d) \cup {k} |-> IF x = k THEN v ELSE d[x]]

\* words_with_hint.get(word)
dict_get(d, k) == IF k \in DOMAIN d THEN d[k] ELSE None

\* The parsing loop of cmd_batch over `lines`: the words in file order and
\* the dictionary from word to hint.
RECURSIVE parse_lines(_, _, _)
parse_lines(ls, words, hints) ==
    IF ls = <<>> THEN [words_to_process |-> words, words_with_hint |-> hints]
    ELSE LET line == strip(Head(ls))
         IN  IF line = <<>> \/ startswith(line, "#")
             THEN parse_lines(Tail(ls), words, hints)
             ELSE LET parts == split_once(line, "|")
                      w == IF contains(line, "|") THEN strip(parts[1]) ELSE line
                      hint == IF contains(line, "|") THEN strip(parts[2]) ELSE None
                  IN  parse_lines(Tail(ls), Append(words, w),
                                  IF truthy(hint) THEN dict_set(hints, w, hint) ELSE hints)

\* A rewrite that takes the whole stripped line, hint included, for the
\* headword: C14 fails with it.
headword_whole(stripped) == stripped

\* The headword the rewrite reads off a stripped data line.
headword(stripped) ==
    IF contains(stripped, "|") THEN strip(split(stripped, "|")[1]) ELSE stripped

\* A rewrite that compares the whole stripped line, hint included, with
\* created_set: C3 fails with it.
keeps_line_whole(line, created_set) ==
    LET stripped == strip(line)
    IN  \/ stripped = <<>>
        \/ startswith(stripped, "#")
        \/ stripped \notin created_set

\* Whether the rewrite keeps a line: blank and comment lines always, a data
\* line unless its headword is in created_set.
keeps_line(line, created_set) ==
    LET stripped == strip(line)
    IN  \/ stripped = <<>>
        \/ startswith(stripped, "#")
        \/ headword(stripped) \notin created_set

\* remaining_lines of the rewrite.
remaining_lines(ls, created_set) ==
    SelectSeq(ls, LAMBDA line : keeps_line(line, created_set))

\* The text path.write_text receives.
rewritten_text(ls, created_set) ==
    LET remaining == remaining_lines(ls, created_set)
    IN  IF remaining # <<>> THEN join("\n", remaining) \o <<"\n">> ELSE <<>>

-----------------------------------------------------------------------------
(* Bounds and the inputs drawn *)

\* Lines in a batch file.
MaxLines == 2

\* Retries ('r') the user asks for on one word.
MaxRetries == 1

\* Characters in an example sentence of the card check.
MaxExample == 3

\* The lines a batch file is made of: blank, comment, data lines with and
\* without hint, the same headword twice with different hints.
FileLines ==
    {<<>>, <<"#", "c">>, <<"a">>, <<"a", " ", "|", "h">>, <<"b">>}

RECURSIVE seqs_upto(_, _)
seqs_upto(S, n) ==
    IF n = 0 THEN {<<>>}
    ELSE LET shorter == seqs_upto(S, n - 1)
         IN  shorter \cup {Append(q, x) : q \in {r \in shorter : Len(r) = n - 1}, x \in S}

\* A batch file: each line ended by a newline.
BatchFiles ==
    {IF ls = <<>> THEN <<>> ELSE join("\n", ls) \o <<"\n">> : ls \in seqs_upto(FileLines, MaxLines)}

Langs == {"es", "en"}

\* Members of the reply's "meanings" array.
RawMeaning1 ==
    [definition |-> <<"d">>, part_of_speech |-> <<"n">>, example |-> <<"x", " ", "a">>,
     example_blanked |-> <<"x", " ", "_", "_", "_">>, example_english |-> <<"t">>]

RawMeaning2 ==
    [definition |-> <<"e">>, part_of_speech |-> <<>>, example |-> <<"_", "_", " ", "y">>,
     example_blanked |-> <<>>, example_english |-> <<"u">>]

\* What the dictionary collaborator can answer for a word: a parsed reply
\* (with or without a "word" member, with zero, one or two meanings).
Replies(w) ==
    {[word |-> n, meanings |-> ms] :
        n \in {None, w, capitalized(w)},
        ms \in {<<>>, <<RawMeaning1>>, <<RawMeaning1, RawMeaning2>>}}

\* What lookup_word can do: raise, or return the result built from a reply.
LookupOutcomes(w, l) ==
    {[raised |-> TRUE, result |-> [word |-> None, meanings |-> <<>>]]}
    \cup {[raised |-> FALSE, result |-> lookup_word(w, l, data)] : data \in Replies(w)}

KeyboardInterrupt == <<"<KeyboardInterrupt>">>

\* What input() gives at a selection prompt.
RawChoices ==
    {<<>>, <<"s">>, <<"S", " ">>, <<"r">>, <<" ", "R">>, <<"0">>, <<"1">>, <<"2">>, <<"3">>,
     <<"x">>, KeyboardInterrupt}

\* What input() gives at the hint prompt.
RawHints == {<<>>, <<" ", "g">>, KeyboardInterrupt}

\* Arguments of cmd_add.
AddWords == {<<"a">>, <<"a", " ", "|", " ", "h">>}
AddContexts == {None, <<"c">>}

\* The example sentences of the card runs: every text of up to MaxExample
\* characters over a letter, a space and the underscore.
CardExamples == seqs_upto({"a", " ", "_"}, MaxExample)

\* The replies of the card runs, of one meaning each: lookup_word fills a
\* member the reply leaves out with "", and takes the reply's "word" and its
\* blanked example as given ("___", or the "__" the Spanish prompt shows).
CardReplies ==
    {[word |-> n,
      meanings |-> <<[definition |-> d, part_of_speech |-> <<"n">>, example |-> e,
                      example_blanked |-> b, example_english |-> t]>>] :
        n \in {None, <<>>, <<"A">>}, d \in {<<>>, <<"d">>}, e \in CardExamples,
        b \in {<<>>, <<"_", "_", "_">>, <<"_", "_">>}, t \in {<<>>, <<"t">>, <<"t", " ", "u">>}}

-----------------------------------------------------------------------------
(* src/chispa/cli.py: the prompts *)

\* A selection prompt that takes KeyboardInterrupt as a skip of the word:
\* C5 fails with it.
batch_choice_skips(raw, n) ==
    IF raw = KeyboardInterrupt THEN [kind |-> "skip", index |-> 0]
    ELSE LET choice == strip(raw)
         IN  IF choice = <<>> /\ n = 1 THEN [kind |-> "select", index |-> 1]
             ELSE IF lower(choice) = <<"s">> THEN [kind |-> "skip", index |-> 0]
             ELSE IF lower(choice) = <<"r">> THEN [kind |-> "retry", index |-> 0]
             ELSE IF n > 1
                  THEN IF int(choice) # ValueError /\ 1 <= int(choice) /\ int(choice) <= n
                       THEN [kind |-> "select", index |-> int(choice)]
                       ELSE [kind |-> "again", index |-> 0]
             ELSE [kind |-> "again", index |-> 0]

\* A selection prompt that takes a number out of range for the nearest
\* meaning: C23 fails with it.
batch_choice_clamps(raw, n) ==
    IF raw = KeyboardInterrupt THEN [kind |-> "cancel", index |-> 0]
    ELSE LET choice == strip(raw)
         IN  IF choice = <<>> /\ n = 1 THEN [kind |-> "select", index |-> 1]
             ELSE IF lower(choice) = <<"s">> THEN [kind |-> "skip", index |-> 0]
             ELSE IF lower(choice) = <<"r">> THEN [kind |-> "retry", index |-> 0]
             ELSE IF n > 1
                  THEN IF int(choice) # ValueError
                       THEN [kind |-> "select",
                             index |-> IF int(choice) < 1 THEN 1
                                       ELSE IF int(choice) > n THEN n ELSE int(choice)]
                       ELSE [kind |-> "again", index |-> 0]
             ELSE [kind |-> "again", index |-> 0]

\* The selection prompt of cmd_batch: what one input() does, for a result of
\* n meanings.  "again" repeats the prompt.
batch_choice(raw, n) ==
    IF raw = KeyboardInterrupt THEN [kind |-> "cancel", index |-> 0]
    ELSE LET choice == strip(raw)
         IN  IF choice = <<>> /\ n = 1 THEN [kind |-> "select", index |-> 1]
             ELSE IF lower(choice) = <<"s">> THEN [kind |-> "skip", index |-> 0]
             ELSE IF lower(choice) = <<"r">> THEN [kind |-> "retry", index |-> 0]
             ELSE IF n > 1
                  THEN IF int(choice) # ValueError /\ 1 <= int(choice) /\ int(choice) <= n
                       THEN [kind |-> "select", index |-> int(choice)]
                       ELSE [kind |-> "again", index |-> 0]
             ELSE [kind |-> "again", index |-> 0]

\* A prompt of cmd_add that takes Enter for the first of several meanings:
\* C24 fails with it.
add_choice_defaults(raw, n) ==
    IF raw = KeyboardInterrupt THEN [kind |-> "cancel", index |-> 0]
    ELSE LET choice == strip(raw)
         IN  IF choice = <<>> THEN [kind |-> "select", index |-> 1]
             ELSE IF lower(choice) = <<"r">> THEN [kind |-> "retry", index |-> 0]
             ELSE IF n > 1 /\ int(choice) # ValueError /\ 1 <= int(choice) /\ int(choice) <= n
                  THEN [kind |-> "select", index |-> int(choice)]
                  ELSE [kind |-> "again", index |-> 0]

\* The selection prompts of cmd_add (one meaning: Enter or 'r'; several: a
\* number or 'r').
add_choice(raw, n) ==
    IF raw = KeyboardInterrupt THEN [kind |-> "cancel", index |-> 0]
    ELSE LET choice == strip(raw)
         IN  IF n = 1
             THEN IF choice = <<>> THEN [kind |-> "select", index |-> 1]
                  ELSE IF lower(choice) = <<"r">> THEN [kind |-> "retry", index |-> 0]
                  ELSE [kind |-> "again", index |-> 0]
             ELSE IF lower(choice) = <<"r">> THEN [kind |-> "retry", index |-> 0]
                  ELSE IF int(choice) # ValueError /\ 1 <= int(choice) /\ int(choice) <= n
                       THEN [kind |-> "select", index |-> int(choice)]
                       ELSE [kind |-> "again", index |-> 0]

\* A retry that keeps only the latest hint as the context: C11 fails with it.
with_hint_latest(context, raw_hint) ==
    LET hint == strip(raw_hint)
    IN  IF hint = <<>> THEN context ELSE hint

\* current_context after a retry hint: f"{current_context}; {hint}" when there
\* is a context already, the hint alone otherwise; unchanged for an empty hint.
with_hint(context, raw_hint) ==
    LET hint == strip(raw_hint)
    IN  IF hint = <<>> THEN context
        ELSE IF truthy(context) THEN context \o <<";", " ">> \o hint
        ELSE hint

\* A resolver without the "if not result.meanings" check: C7 fails with it.
lookup_step_unchecked(outcome) ==
    IF outcome.raised THEN "error" ELSE "present"

\* A resolver that goes on to the prompt after lookup_word raised, where the
\* user can ask for another lookup: C12 fails with it.
lookup_step_goes_on(outcome) ==
    IF outcome.raised THEN "present"
    ELSE IF outcome.result.meanings = <<>> THEN "no_meanings"
    ELSE "present"

\* What a lookup leaves the resolver with: the lookup raised, the result has
\* no meanings, or there are meanings to present.
lookup_step(outcome) ==
    IF outcome.raised THEN "error"
    ELSE IF outcome.result.meanings = <<>> THEN "no_meanings"
    ELSE "present"

-----------------------------------------------------------------------------
(* State *)

VARIABLES
    flow,              \* "batch": cmd_batch(filepath, lang); "add": cmd_add(word, context, lang)
    lang,              \* the lang argument
    context,           \* cmd_add's context argument
    fileText,          \* the batch file on disk (None: no such file)
    pc,                \* where the command stands
    exitCode,          \* the value returned (-1 while running)
    lines,             \* cmd_batch: lines
    words_to_process,  \* cmd_batch: words_to_process
    words_with_hint,   \* cmd_batch: words_with_hint
    idx,               \* cmd_batch: position of the for loop in words_to_process
    word,              \* the word being resolved
    current_context,   \* current_context
    result,            \* result of the latest lookup_word
    selected,          \* selected: <<>> for None, <<meaning>> otherwise
    created,           \* cmd_batch: created
    failed,            \* cmd_batch: failed
    startText,         \* history: the file as the run found it
    outcomes,          \* history: outcome of each item processed, in order
    item,              \* history: what was done for the current (or last) item
    checked,           \* history: is_available was called in this run
    wrote,             \* history: write_text was called in this run
    card,              \* history: the card cmd_add handed to add_note and what the
                       \* media calls did, <<>> before
    ended,             \* history: how the run ended
    prevCreated,       \* history: words the previous run over this file created
    prevEnded,         \* history: how the previous run over this file ended
    spinner            \* a Spinner, its thread and its caller (NoSpinner in the commands)

vars ==
    <<flow, lang, context, fileText, pc, exitCode, lines, words_to_process,
      words_with_hint, idx, word, current_context, result, selected, created,
      failed, startText, outcomes, item, checked, wrote, card, ended,
      prevCreated, prevEnded, spinner>>

NoResult == [word |-> None, meanings |-> <<>>]

NoDict == [x \in {} |-> <<>>]

\* Nothing done yet for an item.  `choice` is the code's variable of that
\* name, the stripped input of the latest selection prompt.
NoItem ==
    [lookups |-> <<>>, raised |-> FALSE, result_word |-> None, retries |-> 0,
     prompted |-> FALSE, choice |-> None,
     interrupted |-> FALSE, reason |-> "",
     word |-> None, calls |-> <<>>, ret |-> ""]

\* No Spinner in hand: the commands are modelled without its thread.
NoSpinner == [script |-> <<>>]

\* The state in which a command is entered.
Entry ==
    /\ pc = "start"
    /\ exitCode = -1
    /\ lines = <<>>
    /\ words_to_process = <<>>
    /\ words_with_hint = NoDict
    /\ idx = 0
    /\ current_context = None
    /\ result = NoResult
    /\ selected = <<>>
    /\ created = <<>>
    /\ failed = <<>>
    /\ outcomes = <<>>
    /\ item = NoItem
    /\ checked = FALSE
    /\ wrote = FALSE
    /\ card = <<>>
    /\ ended = ""
    /\ spinner = NoSpinner

InitBatch ==
    /\ flow = "batch"
    /\ lang \in Langs
    /\ context = None
    /\ word = None
    /\ fileText \in BatchFiles \cup {None}
    /\ startText = fileText
    /\ prevCreated = {}
    /\ prevEnded = ""
    /\ Entry

InitAdd ==
    /\ flow = "add"
    /\ lang \in Langs
    /\ context \in AddContexts
    /\ word \in AddWords
    /\ fileText = None
    /\ startText = None
    /\ prevCreated = {}
    /\ prevEnded = ""
    /\ Entry

Init == InitBatch \/ InitAdd

\* return <code>
Return(code, how) ==
    /\ pc' = "returned"
    /\ exitCode' = code
    /\ ended' = how

\* An exception leaves the command.
Raise ==
    /\ pc' = "raised"
    /\ exitCode' = exitCode
    /\ ended' = "exception"

-----------------------------------------------------------------------------
(* src/chispa/cli.py: cmd_batch *)

batch_args == <<flow, lang, context, prevCreated, prevEnded, startText, card, spinner>>

\* The for loop moves to the next word, or past the last one to the summary.
\* result, current_context and selected are assigned again before they are
\* next read, so the model forgets them here.
NextWord ==
    /\ IF idx < Len(words_to_process)
       THEN idx' = idx + 1 /\ pc' = "lookup"
       ELSE idx' = idx /\ pc' = "summary"
    /\ result' = NoResult
    /\ current_context' = None
    /\ selected' = <<>>
    /\ UNCHANGED <<exitCode, ended>>

\* A failure that is not written to `failed`: C25 fails with it.
ItemFailed_lost ==
    /\ failed' = failed
    /\ created' = created
    /\ outcomes' = Append(outcomes, "failed")
    /\ NextWord

\* failed.append(word), then on to the next word.
ItemFailed ==
    /\ failed' = Append(failed, word)
    /\ created' = created
    /\ outcomes' = Append(outcomes, "failed")
    /\ NextWord

\* Lines 187-225: the file must exist, the store must answer, the file is
\* read and parsed, and there must be a word in it.
cmd_batch_start ==
    /\ flow = "batch"
    /\ pc = "start"
    /\ UNCHANGED <<batch_args, fileText, current_context, result, selected,
                   created, failed, outcomes, item, wrote>>
    /\ IF fileText = None
       THEN /\ Return(1, "early")
            /\ UNCHANGED <<lines, words_to_process, words_with_hint, idx, word, checked>>
       ELSE \E req \in RequestOutcomes :
            /\ checked' = TRUE
            /\ CASE is_available(req) = "False" ->
                      /\ Return(1, "unavailable")
                      /\ UNCHANGED <<lines, words_to_process, words_with_hint, idx, word>>
                 [] is_available(req) = "True" ->
                      LET parsed == parse_lines(read_lines(fileText), <<>>, NoDict)
                      IN  /\ lines' = read_lines(fileText)
                          /\ words_to_process' = parsed.words_to_process
                          /\ words_with_hint' = parsed.words_with_hint
                          /\ word' = word
                          /\ IF parsed.words_to_process = <<>>
                             THEN Return(1, "early") /\ idx' = idx
                             ELSE /\ pc' = "lookup"
                                  /\ idx' = 1
                                  /\ UNCHANGED <<exitCode, ended>>
                 [] OTHER ->
                      /\ Raise
                      /\ UNCHANGED <<lines, words_to_process, words_with_hint, idx, word>>

\* Lines 230-250: the first lookup of the next word, with the hint the
\* dictionary holds for that word.
cmd_batch_lookup ==
    /\ flow = "batch"
    /\ pc = "lookup"
    /\ UNCHANGED <<batch_args, fileText, lines, words_to_process, words_with_hint,
                   checked, wrote>>
    /\ LET w == words_to_process[idx]
           hint == dict_get(words_with_hint, w)
       IN  \E outcome \in LookupOutcomes(w, lang) :
           /\ word' = w
           /\ CASE lookup_step(outcome) = "error" ->
                     /\ item' = [NoItem EXCEPT !.lookups = <<hint>>, !.raised = outcome.raised, !.reason = "lookup_error"]
                     /\ failed' = Append(failed, w)
                     /\ created' = created
                     /\ outcomes' = Append(outcomes, "failed")
                     /\ NextWord
                [] lookup_step(outcome) = "no_meanings" ->
                     /\ item' = [NoItem EXCEPT !.lookups = <<hint>>, !.raised = outcome.raised, !.reason = "no_meanings"]
                     /\ failed' = Append(failed, w)
                     /\ created' = created
                     /\ outcomes' = Append(outcomes, "failed")
                     /\ NextWord
                [] OTHER ->
                     /\ item' = [NoItem EXCEPT !.lookups = <<hint>>, !.raised = outcome.raised,
                                               !.result_word = outcome.result.word]
                     /\ result' = outcome.result
                     /\ current_context' = hint
                     /\ selected' = <<>>
                     /\ pc' = "prompt"
                     /\ UNCHANGED <<idx, created, failed, outcomes, exitCode, ended>>

\* Lines 265-298: one input() at the selection prompt and, after 'r', the
\* input() of the hint.
cmd_batch_prompt ==
    /\ flow = "batch"
    /\ pc = "prompt"
    /\ UNCHANGED <<batch_args, fileText, lines, words_to_process, words_with_hint, word,
                   checked, wrote>>
    /\ \E raw \in RawChoices :
       LET c == batch_choice(raw, Len(result.meanings))
           prompted == [item EXCEPT !.prompted = TRUE,
                                    !.interrupted = (raw = KeyboardInterrupt),
                                    !.choice = IF raw = KeyboardInterrupt THEN @ ELSE strip(raw)]
       IN  CASE c.kind = "cancel" ->
                  /\ Return(1, "interrupt")
                  /\ item' = prompted
                  /\ UNCHANGED <<idx, current_context, result, selected, created,
                                 failed, outcomes>>
             [] c.kind = "select" ->
                  /\ selected' = <<result.meanings[c.index]>>
                  /\ pc' = "create"
                  /\ item' = prompted
                  /\ UNCHANGED <<idx, current_context, result, created, failed,
                                 outcomes, exitCode, ended>>
             [] c.kind = "skip" ->
                  /\ item' = [prompted EXCEPT !.reason = "skip"]
                  /\ ItemFailed
             [] c.kind = "retry" ->
                  /\ Len(item.lookups) <= MaxRetries
                  /\ \E raw_hint \in RawHints :
                     IF raw_hint = KeyboardInterrupt
                     THEN /\ Return(1, "interrupt")
                          /\ item' = [prompted EXCEPT !.interrupted = TRUE]
                          /\ UNCHANGED <<idx, current_context, result, selected,
                                         created, failed, outcomes>>
                     ELSE /\ current_context' = with_hint(current_context, raw_hint)
                          /\ pc' = "retry"
                          /\ item' = [prompted EXCEPT !.retries = @ + 1]
                          /\ UNCHANGED <<idx, result, selected, created, failed,
                                         outcomes, exitCode, ended>>
             [] OTHER ->
                  /\ item' = prompted
                  /\ UNCHANGED <<pc, exitCode, ended, idx, current_context, result,
                                 selected, created, failed, outcomes>>

\* Lines 299-309: the lookup of a retry, with the accumulated context.
cmd_batch_retry ==
    /\ flow = "batch"
    /\ pc = "retry"
    /\ UNCHANGED <<batch_args, fileText, lines, words_to_process, words_with_hint, word,
                   checked, wrote>>
    /\ \E outcome \in LookupOutcomes(word, lang) :
       CASE lookup_step(outcome) = "error" ->
              /\ item' = [item EXCEPT !.lookups = Append(@, current_context), !.raised = outcome.raised,
                                      !.result_word = None, !.reason = "lookup_error"]
              /\ ItemFailed
         [] lookup_step(outcome) = "no_meanings" ->
              /\ item' = [item EXCEPT !.lookups = Append(@, current_context), !.raised = outcome.raised,
                                      !.result_word = None, !.reason = "no_meanings"]
              /\ ItemFailed
         [] OTHER ->
              /\ item' = [item EXCEPT !.lookups = Append(@, current_context), !.raised = outcome.raised,
                                      !.result_word = outcome.result.word]
              /\ result' = outcome.result
              /\ pc' = "prompt"
              /\ UNCHANGED <<idx, current_context, selected, created, failed,
                             outcomes, exitCode, ended>>

\* A card made under the spelling the user typed: C16 fails with it.
typed_word(res, typed) == typed

\* normalized_word = result.word, with the lookup result and the typed word
\* in hand.
normalized_word(res, typed) == res.word

\* A checkpoint under the normalized spelling, created.append(normalized_word):
\* C28 fails with it.
checkpoint_word_normalized(typed, normalized) == normalized

\* created.append(word): the word as the file has it.
checkpoint_word(typed, normalized) == typed

\* Lines 313-323: the card of the selected meaning, under the word the
\* lookup gave back.
cmd_batch_create ==
    /\ flow = "batch"
    /\ pc = "create"
    /\ UNCHANGED <<batch_args, fileText, lines, words_to_process, words_with_hint, word,
                   checked, wrote>>
    /\ \E img \in MediaOutcomes, aud \in MediaOutcomes, req \in RequestOutcomes :
       LET card_word == normalized_word(result, word)
           r == create_card_for_meaning(card_word, selected[1], lang, img, aud, req)
       IN  CASE r.ret = "True" ->
                     /\ item' = [item EXCEPT !.reason = "created", !.word = card_word,
                                             !.calls = r.calls, !.ret = r.ret]
                     /\ created' = Append(created, checkpoint_word(word, card_word))
                     /\ failed' = failed
                     /\ outcomes' = Append(outcomes, "created")
                     /\ NextWord
                [] r.ret = "False" ->
                     /\ item' = [item EXCEPT !.reason = "store_rejected", !.word = card_word,
                                             !.calls = r.calls, !.ret = r.ret]
                     /\ ItemFailed
                [] OTHER ->
                     /\ item' = [item EXCEPT !.reason = "exception", !.word = card_word,
                                             !.calls = r.calls, !.ret = r.ret]
                     /\ Raise
                     /\ UNCHANGED <<idx, current_context, result, selected, created,
                                    failed, outcomes>>

\* An exit code that is 1 when no word failed: C13 fails with it.
batch_exit_code_inverted(failed_words) == IF failed_words = <<>> THEN 1 ELSE 0

\* return 0 if not failed else 1
batch_exit_code(failed_words) == IF failed_words = <<>> THEN 0 ELSE 1

\* A summary that rewrites the file whether or not a card was created:
\* C27 fails with it.
cmd_batch_summary_writes_always ==
    /\ flow = "batch"
    /\ pc = "summary"
    /\ UNCHANGED <<batch_args, lines, words_to_process, words_with_hint, idx, word,
                   current_context, result, selected, created, failed, outcomes, checked>>
    /\ item' = NoItem
    /\ fileText' = rewritten_text(lines, {created[i] : i \in 1..Len(created)})
    /\ wrote' = TRUE
    /\ Return(batch_exit_code(failed), "complete")

\* Lines 325-350: the summary, the rewrite of the file when a card was
\* created, and the exit code.  The loop is over: no item is in hand.
cmd_batch_summary ==
    /\ flow = "batch"
    /\ pc = "summary"
    /\ UNCHANGED <<batch_args, lines, words_to_process, words_with_hint, idx, word,
                   current_context, result, selected, created, failed, outcomes, checked>>
    /\ item' = NoItem
    /\ IF created # <<>>
       THEN /\ fileText' = rewritten_text(lines, {created[i] : i \in 1..Len(created)})
            /\ wrote' = TRUE
       ELSE UNCHANGED <<fileText, wrote>>
    /\ Return(batch_exit_code(failed), "complete")

\* The command is run again on the same file, after a run that returned
\* with cards created.  (After a run that created none the file is as it
\* was and there is nothing to remember: that is a run from Init.)
cmd_batch_again ==
    /\ flow = "batch"
    /\ pc = "returned"
    /\ created # <<>>
    /\ prevCreated' = {created[i] : i \in 1..Len(created)}
    /\ prevEnded' = ended
    /\ startText' = fileText
    /\ word' = None
    /\ pc' = "start"
    /\ exitCode' = -1
    /\ lines' = <<>>
    /\ words_to_process' = <<>>
    /\ words_with_hint' = NoDict
    /\ idx' = 0
    /\ current_context' = None
    /\ result' = NoResult
    /\ selected' = <<>>
    /\ created' = <<>>
    /\ failed' = <<>>
    /\ outcomes' = <<>>
    /\ item' = NoItem
    /\ checked' = FALSE
    /\ wrote' = FALSE
    /\ ended' = ""
    /\ UNCHANGED <<flow, lang, context, fileText, card, spinner>>

-----------------------------------------------------------------------------
(* src/chispa/cli.py: cmd_add *)

add_frame ==
    <<flow, lang, context, fileText, startText, prevCreated, prevEnded, lines,
      words_to_process, words_with_hint, idx, created, failed, outcomes, wrote, spinner>>

\* Lines 84-95: an inline "word | hint" argument is split and its hint joined
\* to the context argument.
cmd_add_start ==
    /\ flow = "add"
    /\ pc = "start"
    /\ UNCHANGED <<add_frame, result, selected, item, checked, card, exitCode, ended>>
    /\ IF contains(word, "|")
       THEN LET parts == split_once(word, "|")
                inline_hint == strip(parts[2])
            IN  /\ word' = strip(parts[1])
                /\ current_context' =
                      IF truthy(context) THEN context \o <<";", " ">> \o inline_hint
                      ELSE inline_hint
       ELSE /\ word' = word
            /\ current_context' = context
    /\ pc' = "lookup"

\* Lines 97-111: a lookup with the current context.
cmd_add_lookup ==
    /\ flow = "add"
    /\ pc = "lookup"
    /\ UNCHANGED <<add_frame, word, current_context, selected, checked, card>>
    /\ \E outcome \in LookupOutcomes(word, lang) :
       CASE lookup_step(outcome) = "error" ->
              /\ item' = [item EXCEPT !.lookups = Append(@, current_context), !.raised = outcome.raised,
                                      !.result_word = None, !.reason = "lookup_error"]
              /\ result' = result
              /\ Return(1, "abandoned")
         [] lookup_step(outcome) = "no_meanings" ->
              /\ item' = [item EXCEPT !.lookups = Append(@, current_context), !.raised = outcome.raised,
                                      !.result_word = None, !.reason = "no_meanings"]
              /\ result' = outcome.result
              /\ Return(1, "abandoned")
         [] OTHER ->
              /\ item' = [item EXCEPT !.lookups = Append(@, current_context), !.raised = outcome.raised,
                                      !.result_word = outcome.result.word]
              /\ result' = outcome.result
              /\ pc' = "prompt"
              /\ UNCHANGED <<exitCode, ended>>

\* Lines 121-166: one input() at the selection prompt and, after 'r', the
\* input() of the hint.
cmd_add_prompt ==
    /\ flow = "add"
    /\ pc = "prompt"
    /\ UNCHANGED <<add_frame, word, result, checked, card>>
    /\ \E raw \in RawChoices :
       LET c == add_choice(raw, Len(result.meanings))
           prompted == [item EXCEPT !.prompted = TRUE,
                                    !.interrupted = (raw = KeyboardInterrupt),
                                    !.choice = IF raw = KeyboardInterrupt THEN @ ELSE strip(raw)]
       IN  CASE c.kind = "cancel" ->
                  /\ Return(1, "interrupt")
                  /\ item' = prompted
                  /\ UNCHANGED <<current_context, selected>>
             [] c.kind = "select" ->
                  /\ selected' = <<result.meanings[c.index]>>
                  /\ pc' = "create"
                  /\ item' = prompted
                  /\ UNCHANGED <<current_context, exitCode, ended>>
             [] c.kind = "retry" ->
                  /\ Len(item.lookups) <= MaxRetries
                  /\ \E raw_hint \in RawHints :
                     IF raw_hint = KeyboardInterrupt
                     THEN /\ Return(1, "interrupt")
                          /\ item' = [prompted EXCEPT !.interrupted = TRUE]
                          /\ UNCHANGED <<current_context, selected>>
                     ELSE /\ current_context' = with_hint(current_context, raw_hint)
                          /\ pc' = "lookup"
                          /\ item' = [prompted EXCEPT !.retries = @ + 1]
                          /\ UNCHANGED <<selected, exitCode, ended>>
             [] OTHER ->
                  /\ item' = prompted
                  /\ UNCHANGED <<pc, exitCode, ended, current_context, selected>>

\* Lines 168-182: the store must answer; then the card of the selected
\* meaning, under the word the lookup gave back.
cmd_add_create ==
    /\ flow = "add"
    /\ pc = "create"
    /\ UNCHANGED <<add_frame, word, current_context, result, selected>>
    /\ checked' = TRUE
    /\ \E avail \in RequestOutcomes :
       CASE is_available(avail) = "False" ->
              /\ item' = [item EXCEPT !.reason = "unavailable"]
              /\ card' = card
              /\ Return(1, "unavailable")
         [] is_available(avail) = "True" ->
              \E img \in MediaOutcomes, aud \in MediaOutcomes, req \in RequestOutcomes :
              LET card_word == normalized_word(result, word)
                  r == create_card_for_meaning(card_word, selected[1], lang,
                                               img, aud, req)
              IN  /\ card' = <<[note |-> r.card, img |-> img, aud |-> aud]>>
                  /\ item' = [item EXCEPT !.word = card_word, !.calls = r.calls,
                                          !.ret = r.ret,
                                          !.reason = CASE r.ret = "True" -> "created"
                                                       [] r.ret = "False" -> "store_rejected"
                                                       [] OTHER -> "exception"]
                  /\ CASE r.ret = "True" -> Return(0, "complete")
                       [] r.ret = "False" -> Return(1, "complete")
                       [] OTHER -> Raise
         [] OTHER ->
              /\ item' = [item EXCEPT !.reason = "exception"]
              /\ card' = card
              /\ Raise

-----------------------------------------------------------------------------
(* Specifications *)

Next ==
    \/ cmd_batch_start
    \/ cmd_batch_lookup
    \/ cmd_batch_prompt
    \/ cmd_batch_retry
    \/ cmd_batch_create
    \/ cmd_batch_summary
    \/ cmd_add_start
    \/ cmd_add_lookup
    \/ cmd_add_prompt
    \/ cmd_add_create

\* Both commands, from their entry.
Spec == Init /\ [][Next]_vars

NextAgain ==
    \/ cmd_batch_start
    \/ cmd_batch_lookup
    \/ cmd_batch_prompt
    \/ cmd_batch_retry
    \/ cmd_batch_create
    \/ cmd_batch_summary
    \/ cmd_batch_again

\* cmd_batch run over a file, and run again over what it left of the file.
InitAgain == InitBatch /\ lang = "es"

SpecAgain == InitAgain /\ [][NextAgain]_vars

\* cmd_add from the point where a meaning has been selected: a lookup gave
\* one meaning and the user accepted it.
InitCard ==
    /\ flow = "add"
    /\ lang \in Langs
    /\ context = None
    /\ word = <<"a">>
    /\ fileText = None
    /\ startText = None
    /\ prevCreated = {}
    /\ prevEnded = ""
    /\ pc = "create"
    /\ exitCode = -1
    /\ lines = <<>>
    /\ words_to_process = <<>>
    /\ words_with_hint = NoDict
    /\ idx = 0
    /\ current_context = None
    /\ \E data \in CardReplies : result = lookup_word(word, lang, data)
    /\ selected = <<result.meanings[1]>>
    /\ created = <<>>
    /\ failed = <<>>
    /\ outcomes = <<>>
    /\ item = [NoItem EXCEPT !.lookups = <<None>>, !.prompted = TRUE, !.choice = <<>>]
    /\ checked = FALSE
    /\ wrote = FALSE
    /\ card = <<>>
    /\ ended = ""
    /\ spinner = NoSpinner

NextCard == cmd_add_create

\* The card of a selected meaning, for every shape of meaning.
SpecCard == InitCard /\ [][NextCard]_vars

-----------------------------------------------------------------------------
(* Properties: the batch file *)

\* The lines of a file's text, each without its line end.
splitlines(text) ==
    IF text = <<>> THEN <<>>
    ELSE split(IF text[Len(text)] = "\n" THEN SubSeq(text, 1, Len(text) - 1) ELSE text, "\n")

\* A blank line, or a comment line (first non-blank character '#').
is_frame_line(line) == strip(line) = <<>> \/ startswith(strip(line), "#")

is_data_line(line) == ~is_frame_line(line)

\* The data lines whose item did not end created, in order.
RECURSIVE not_created(_, _)
not_created(ls, outs) ==
    IF ls = <<>> \/ outs = <<>> THEN <<>>
    ELSE (IF Head(outs) = "created" THEN <<>> ELSE <<Head(ls)>>)
         \o not_created(Tail(ls), Tail(outs))

\* C1: after a complete run of cmd_batch the comment lines and the blank
\* lines of the input file are all in the file, unchanged and in their order.
C1_FrameLinesPreserved ==
    (flow = "batch" /\ ended = "complete") =>
        SelectSeq(splitlines(fileText), is_frame_line)
            = SelectSeq(splitlines(startText), is_frame_line)

\* C2: after a complete run of cmd_batch the data lines left in the file are
\* exactly the data lines whose item did not end created, verbatim and in
\* their order, also when a headword is on more than one line.
C2_OnlyCreatedLinesRemoved ==
    (flow = "batch" /\ ended = "complete") =>
        SelectSeq(splitlines(fileText), is_data_line)
            = not_created(SelectSeq(splitlines(startText), is_data_line), outcomes)

\* C3: in a run of cmd_batch over the file a complete run left, no line of the
\* file has a headword the complete run created, no such word is among the
\* words to process, and no such word is looked up or submitted.
C3_CreatedWordsAreGone ==
    (prevEnded = "complete" /\ startText # None) =>
        /\ \A i \in 1..Len(splitlines(startText)) :
              is_data_line(splitlines(startText)[i]) =>
                  headword(strip(splitlines(startText)[i])) \notin prevCreated
        /\ \A i \in 1..Len(words_to_process) : words_to_process[i] \notin prevCreated
        /\ word \notin prevCreated
        /\ \A i \in 1..Len(created) : created[i] \notin prevCreated

\* A second run, after a complete run that created a card, looks up a word
\* the first run left in the file.
C3_SecondRunLooksUp ==
    /\ prevEnded = "complete"
    /\ prevCreated # {}
    /\ item.lookups # <<>>
    /\ word # None

\* C4: in a run of cmd_batch started again after an interrupted run, no word
\* the interrupted run created is looked up or submitted again (a word that
\* is on two lines of the file may be, for its other line).
C4_RestartSkipsCreated ==
    (prevEnded = "interrupt" /\ word \in prevCreated) =>
        Cardinality({i \in 1..Len(words_to_process) : words_to_process[i] = word}) > 1

-----------------------------------------------------------------------------
(* Properties: interrupts, failures, preconditions *)

\* C5: a KeyboardInterrupt at a selection prompt or a hint prompt ends the
\* command at once with exit code 1: no lookup follows, no image, audio or
\* store call is made for the word in hand, in cmd_batch no further word is
\* processed and the file is not written, in cmd_add the store is not called.
C5_InterruptEndsRun ==
    item.interrupted =>
        /\ pc = "returned"
        /\ exitCode = 1
        /\ ended = "interrupt"
        /\ item.calls = <<>>
        /\ item.ret = ""
        /\ ~wrote
        /\ fileText = startText
        /\ flow = "batch" => (Len(outcomes) = idx - 1 /\ idx <= Len(words_to_process))
        /\ flow = "add" => (card = <<>> /\ ~checked)

\* cmd_batch is interrupted at the prompt of a later word, after a card was
\* created.
C5_InterruptedAfterCreated ==
    /\ item.interrupted
    /\ flow = "batch"
    /\ created # <<>>

\* C6: in cmd_batch a failed add-note call (a rejection, a connection
\* failure, a timeout, an HTTP error status) leaves the word failed and the
\* run going: no exception leaves cmd_batch.
C6_StoreFailureContained ==
    (flow = "batch" /\ item.ret \notin {"", "True"}) =>
        /\ pc # "raised"
        /\ outcomes # <<>>
        /\ outcomes[Len(outcomes)] = "failed"

\* C7: no meaning is presented or selected from a result without meanings;
\* after a lookup, first or retry, that gave none, no image, audio or store
\* call is made for the word, cmd_add returns 1 and cmd_batch has the word
\* failed.
C7_NeverSelectedFromEmpty ==
    /\ pc \in {"prompt", "create"} => result.meanings # <<>>
    /\ selected # <<>> => (result.meanings # <<>> /\ \E i \in 1..Len(result.meanings) :
                               selected[1] = result.meanings[i])
    /\ item.reason = "no_meanings" =>
          /\ selected = <<>>
          /\ item.calls = <<>>
          /\ item.ret = ""
          /\ flow = "add" => (pc = "returned" /\ exitCode = 1 /\ card = <<>>)
          /\ flow = "batch" => (/\ failed # <<>>
                                /\ failed[Len(failed)] = word
                                /\ outcomes[Len(outcomes)] = "failed")

\* A retry lookup gave no meanings.
C7_RetryGaveNone ==
    /\ item.reason = "no_meanings"
    /\ Len(item.lookups) > 1

\* C8: when the is_available check fails the command returns 1 and nothing
\* has been done for any word: no lookup, no prompt, no image, audio or
\* add-note call.
C8_AvailabilityCheckedFirst ==
    ended = "unavailable" =>
        /\ exitCode = 1
        /\ item.lookups = <<>>
        /\ ~item.prompted
        /\ item.calls = <<>>
        /\ outcomes = <<>>

-----------------------------------------------------------------------------
(* Properties: the card *)

\* The calls of one collaborator among the calls made for an item.
calls_to(name) == SelectSeq(item.calls, LAMBDA c : c.call = name)

\* C9: once a meaning is selected a card is built and handed to add_note
\* exactly once whatever the media calls do: image_ref is "" when
\* generate_image raises, audio_ref is "" when the audio is skipped or
\* generate_audio raises, and word, definition and sentence_full are not "".
C9_CardAlwaysComplete ==
    card # <<>> =>
        /\ Len(calls_to("add_note")) = 1
        /\ card[1].img = "raise" => card[1].note.image_ref = <<>>
        /\ (card[1].aud = "raise" \/ calls_to("generate_audio") = <<>>) =>
              card[1].note.audio_ref = <<>>
        /\ card[1].note.word # <<>>
        /\ card[1].note.definition # <<>>
        /\ card[1].note.sentence_full # <<>>

\* C10: when the example holds two or more underscores in a row
\* generate_audio is not called and audio_ref is ""; when it holds no such
\* run generate_audio is called exactly once, with the whole example.
C10_AudioSkipRule ==
    card # <<>> =>
        LET text == selected[1].example
            blank == \E i \in 1..(Len(text) - 1) : text[i] = "_" /\ text[i + 1] = "_"
        IN  IF blank
            THEN calls_to("generate_audio") = <<>> /\ card[1].note.audio_ref = <<>>
            ELSE /\ Len(calls_to("generate_audio")) = 1
                 /\ calls_to("generate_audio")[1].arg = text

\* A card whose example holds exactly two underscores in a row, built when
\* generate_audio would have succeeded.
C10_TwoUnderscoresSkipped ==
    /\ card # <<>>
    /\ card[1].aud = "ok"
    /\ \E i \in 1..(Len(selected[1].example) - 1) :
          selected[1].example[i] = "_" /\ selected[1].example[i + 1] = "_"
    /\ ~\E i \in 1..(Len(selected[1].example) - 2) :
          /\ selected[1].example[i] = "_"
          /\ selected[1].example[i + 1] = "_"
          /\ selected[1].example[i + 2] = "_"

-----------------------------------------------------------------------------
(* Properties: the resolver *)

\* The text of a context, "" for None.
context_text(c) == IF c = None THEN <<>> ELSE c

\* C11: between one lookup of a word and the next the context is either the
\* same (empty hint) or, for the hint h given, "c; h" when the context c was
\* not empty and h otherwise; so each lookup's context starts with the
\* context of the lookup before it.  In cmd_add and in cmd_batch.
C11_HintsAccumulate ==
    \A i \in 1..(Len(item.lookups) - 1) :
        LET c == context_text(item.lookups[i])
            d == context_text(item.lookups[i + 1])
        IN  /\ Len(c) <= Len(d)
            /\ SubSeq(d, 1, Len(c)) = c
            /\ \/ item.lookups[i + 1] = item.lookups[i]
               \/ \E raw \in RawHints \ {KeyboardInterrupt} :
                     /\ strip(raw) # <<>>
                     /\ d = IF c # <<>> THEN c \o <<";", " ">> \o strip(raw) ELSE strip(raw)

\* A retry with a hint, for a word whose first lookup already had a context.
C11_HintAddedToContext ==
    /\ Len(item.lookups) >= 2
    /\ context_text(item.lookups[1]) # <<>>
    /\ item.lookups[2] # item.lookups[1]

\* C12: when lookup_word raises, on the first lookup or on a retry, the word
\* is abandoned at once (cmd_add returns 1, cmd_batch has it failed and goes
\* on) with no further lookup for it; the lookups made for a word are one
\* plus the retries the user asked for.
C12_LookupFailureNotRetried ==
    /\ item.raised =>
          /\ item.reason = "lookup_error"
          /\ item.calls = <<>>
          /\ flow = "add" => (pc = "returned" /\ exitCode = 1)
          /\ flow = "batch" => (/\ pc \in {"lookup", "summary"}
                                /\ failed # <<>>
                                /\ failed[Len(failed)] = word
                                /\ outcomes[Len(outcomes)] = "failed")
    /\ item.lookups # <<>> =>
          Len(item.lookups)
              + (IF (flow = "batch" /\ pc = "retry") \/ (flow = "add" /\ pc = "lookup")
                 THEN 1 ELSE 0)
            = 1 + item.retries

\* lookup_word raised on a retry lookup.
C12_RetryLookupRaised ==
    /\ item.raised
    /\ item.retries >= 1

-----------------------------------------------------------------------------
(* Properties: the exit code *)

-----------------------------------------------------------------------------
(* The batch scenario *)

\* "banco\n# comment\nserendipity | feeling\n"
ScenarioFile ==
    <<"b", "a", "n", "c", "o", "\n",
      "#", " ", "c", "o", "m", "m", "e", "n", "t", "\n",
      "s", "e", "r", "e", "n", "d", "i", "p", "i", "t", "y", " ", "|", " ",
      "f", "e", "e", "l", "i", "n", "g", "\n">>

InitScenario ==
    /\ flow = "batch"
    /\ lang \in Langs
    /\ context = None
    /\ word = None
    /\ fileText = ScenarioFile
    /\ startText = fileText
    /\ prevCreated = {}
    /\ prevEnded = ""
    /\ Entry

NextScenario ==
    \/ cmd_batch_start
    \/ cmd_batch_lookup
    \/ cmd_batch_prompt
    \/ cmd_batch_retry
    \/ cmd_batch_create
    \/ cmd_batch_summary

\* cmd_batch over the scenario's file.
SpecScenario == InitScenario /\ [][NextScenario]_vars

\* C14: when cmd_batch over "banco\n# comment\nserendipity | feeling\n" has
\* both words selected and accepted by the store, the file is "# comment\n"
\* afterwards and cmd_batch returns 0.
C14_ScenarioRewrite ==
    (ended = "complete" /\ outcomes = <<"created", "created">>) =>
        /\ fileText = <<"#", " ", "c", "o", "m", "m", "e", "n", "t", "\n">>
        /\ exitCode = 0
        /\ created = <<<<"b", "a", "n", "c", "o">>,
                       <<"s", "e", "r", "e", "n", "d", "i", "p", "i", "t", "y">>>>

\* Both words of the scenario created, the run complete.
C14_BothCreated ==
    /\ fileText # ScenarioFile
    /\ ended = "complete"
    /\ outcomes = <<"created", "created">>
    /\ wrote

-----------------------------------------------------------------------------
(* Properties: the fields of the card *)

\* C15: an English card has no translation line: sentence_blank is the
\* blanked example and sentence_full the example, verbatim.  A card of
\* another language has "<br>" and the translation after the example in
\* both, whatever the length of the translation.
C15_TranslationLine ==
    card # <<>> =>
        LET m == selected[1]
            note == card[1].note
            blanked == IF m.example_blanked # <<>> THEN m.example_blanked
                       ELSE replace_word_with_blank(m.example, note.word,
                                                    create_blank_for_word(note.word))
        IN  IF lang = "en"
            THEN /\ note.sentence_full = m.example
                 /\ note.sentence_blank = blanked
                 /\ ~contains(note.sentence_full, "<br>")
                 /\ ~contains(note.sentence_blank, "<br>")
            ELSE /\ note.sentence_full = m.example \o <<"<br>">> \o m.translation
                 /\ note.sentence_blank = blanked \o <<"<br>">> \o m.translation

\* A Spanish card whose translation is a single word, and its example
\* blanked by the fallback.
C15_OneWordTranslation ==
    /\ card # <<>>
    /\ lang = "es"
    /\ selected[1].translation = <<"t">>
    /\ selected[1].example_blanked = <<>>
    /\ selected[1].example # <<>>

\* C16: the card is made under the word of the lookup result the meaning was
\* selected from, the latest lookup of the word, retries included, and so are
\* the image and audio references; that word is the reply's "word", and the
\* spelling asked for when the reply has none.
C16_WordNormalized ==
    /\ item.calls # <<>> =>
          /\ item.word = item.result_word
          /\ flow = "add" =>
                /\ item.word = result.word
                /\ card # <<>>
                /\ card[1].note.word = result.word
                /\ card[1].note.image_ref \in {<<>>, get_image_reference(result.word)}
                /\ card[1].note.audio_ref \in {<<>>, get_audio_reference(result.word)}
    /\ word # None =>
          \A data \in Replies(word) :
              lookup_word(word, lang, data).word
                  = IF data.word = None THEN word ELSE data.word

\* A card made after a retry, under a word that is not the spelling typed.
C16_OtherSpelling ==
    /\ item.calls # <<>>
    /\ item.retries >= 1
    /\ item.word # word

-----------------------------------------------------------------------------
(* src/chispa/spinner.py: Spinner, its thread and its caller *)

\* Frames the spinner thread writes in one run.
MaxFrames == 3

\* The calls a caller makes on one Spinner: those of the image step of
\* create_card_for_meaning (the same on success and on failure of
\* generate_image), stop() without start(), and stop() twice.
SpinnerScripts ==
    {[i \in 1..Len(image_step(<<"p">>, <<"a">>, img).calls) |->
         image_step(<<"p">>, <<"a">>, img).calls[i].call] : img \in MediaOutcomes}
    \cup {<<"spinner.stop">>,
          <<"spinner.stop", "spinner.stop">>,
          <<"spinner.start", "spinner.stop", "spinner.stop">>}

\* A loop that never looks at the event, "while True": C17 fails with it.
spin_forever(stop_event) == stop_event \/ ~stop_event

\* "while not self._stop_event.is_set()"
spin_continues(stop_event) == ~stop_event

\* A join without timeout, self._thread.join(): C18 fails with it.
join_waits(spin, timeout_over) == spin = "done"

\* self._thread.join(timeout=0.5) returns when the thread has ended or when
\* the timeout has run out.
join_returns(spin, timeout_over) == spin = "done" \/ timeout_over

\* Spinner(message): no thread, the event clear.  `late` counts the frames
\* written after a stop() returned, `since_set` those written after the
\* event was set, `timed_out` says that a join returned on its timeout.
InitSpinner ==
    /\ flow = "spinner"
    /\ lang = "es"
    /\ context = None
    /\ word = None
    /\ fileText = None
    /\ startText = None
    /\ prevCreated = {}
    /\ prevEnded = ""
    /\ pc = "start"
    /\ exitCode = -1
    /\ lines = <<>>
    /\ words_to_process = <<>>
    /\ words_with_hint = NoDict
    /\ idx = 0
    /\ current_context = None
    /\ result = NoResult
    /\ selected = <<>>
    /\ created = <<>>
    /\ failed = <<>>
    /\ outcomes = <<>>
    /\ item = NoItem
    /\ checked = FALSE
    /\ wrote = FALSE
    /\ card = <<>>
    /\ ended = ""
    /\ \E script \in SpinnerScripts :
          spinner = [script |-> script, ip |-> 1, in_stop |-> "", stop_event |-> FALSE,
                     thread |-> FALSE, spin |-> "none", idx |-> 0, since_set |-> 0,
                     late |-> 0, returned |-> 0, timed_out |-> FALSE]

\* What the spinner steps leave alone.
command_vars ==
    <<flow, lang, context, fileText, pc, exitCode, lines, words_to_process,
      words_with_hint, idx, word, current_context, result, selected, created,
      failed, startText, outcomes, item, checked, wrote, card, ended,
      prevCreated, prevEnded>>

\* The caller is about to make the call `name`.
Calls(name) ==
    /\ flow = "spinner"
    /\ spinner.in_stop = ""
    /\ spinner.ip <= Len(spinner.script)
    /\ spinner.script[spinner.ip] = name

\* Spinner.start: the event cleared, the thread created and started.
Spinner_start ==
    /\ Calls("spinner.start")
    /\ spinner' = [spinner EXCEPT !.stop_event = FALSE, !.thread = TRUE,
                                   !.spin = "check", !.ip = @ + 1]
    /\ UNCHANGED command_vars

\* The caller's work while the spinner runs: generate_image returns or raises.
Spinner_caller_works ==
    /\ Calls("generate_image")
    /\ spinner' = [spinner EXCEPT !.ip = @ + 1]
    /\ UNCHANGED command_vars

\* Spinner.stop, line 35: the event set; the join follows when there is a
\* thread.
Spinner_stop ==
    /\ Calls("spinner.stop")
    /\ spinner' = [spinner EXCEPT !.stop_event = TRUE,
                                   !.in_stop = IF spinner.thread THEN "join" ELSE "clear"]
    /\ UNCHANGED command_vars

\* Spinner.stop, line 37: the join returns.
Spinner_stop_join ==
    /\ flow = "spinner"
    /\ spinner.in_stop = "join"
    /\ \E timeout_over \in BOOLEAN :
          /\ join_returns(spinner.spin, timeout_over)
          /\ spinner' = [spinner EXCEPT !.in_stop = "clear",
                                         !.timed_out = @ \/ spinner.spin # "done"]
    /\ UNCHANGED command_vars

\* Spinner.stop, lines 38-39: the line cleared, stop() returns.
Spinner_stop_clear ==
    /\ flow = "spinner"
    /\ spinner.in_stop = "clear"
    /\ spinner' = [spinner EXCEPT !.in_stop = "", !.returned = @ + 1, !.ip = @ + 1]
    /\ UNCHANGED command_vars

\* Spinner._spin, line 22: the test of the loop.
_spin_check ==
    /\ flow = "spinner"
    /\ spinner.spin = "check"
    /\ IF spin_continues(spinner.stop_event)
       THEN /\ spinner.idx < MaxFrames
            /\ spinner' = [spinner EXCEPT !.spin = "write"]
       ELSE spinner' = [spinner EXCEPT !.spin = "done"]
    /\ UNCHANGED command_vars

\* Spinner._spin, lines 23-26: a frame written and flushed.
_spin_write ==
    /\ flow = "spinner"
    /\ spinner.spin = "write"
    /\ spinner' = [spinner EXCEPT !.spin = "sleep", !.idx = @ + 1,
                                   !.since_set = IF spinner.stop_event THEN @ + 1 ELSE @,
                                   !.late = IF spinner.returned > 0 THEN @ + 1 ELSE @]
    /\ UNCHANGED command_vars

\* Spinner._spin, line 27: the sleep is over.
_spin_sleep ==
    /\ flow = "spinner"
    /\ spinner.spin = "sleep"
    /\ spinner' = [spinner EXCEPT !.spin = "check"]
    /\ UNCHANGED command_vars

NextSpinner ==
    \/ Spinner_start
    \/ Spinner_caller_works
    \/ Spinner_stop
    \/ Spinner_stop_join
    \/ Spinner_stop_clear
    \/ _spin_check
    \/ _spin_write
    \/ _spin_sleep

\* One Spinner, its thread and its caller, under every interleaving.
SpecSpinner == InitSpinner /\ [][NextSpinner]_vars

-----------------------------------------------------------------------------
(* Properties: the spinner *)

\* C17, as claimed: once a stop() has returned the spinner thread writes no
\* further frame, under every interleaving.
C17_NoFrameAfterStop ==
    (flow = "spinner" /\ spinner.returned > 0) => spinner.late = 0

\* C17, as the code has it: the thread writes at most one frame after the
\* event is set, so at most one after stop() has returned, and none when the
\* join returned because the thread had ended or when there was no thread;
\* a frame after stop() takes a join that ran into its timeout with the
\* thread past the test of its loop.
C17_AtMostOneFrameAfterStop ==
    flow = "spinner" =>
        /\ spinner.since_set <= 1
        /\ spinner.late <= spinner.since_set
        /\ spinner.late > 0 => (spinner.timed_out /\ spinner.thread)
        /\ (spinner.returned > 0 /\ ~spinner.timed_out) =>
              (spinner.late = 0 /\ spinner.spin \in {"none", "done"})

\* stop() has returned after a join that found the thread ended, the thread
\* having written frames before.
C17_StoppedInTime ==
    /\ flow = "spinner"
    /\ spinner.returned > 0
    /\ ~spinner.timed_out
    /\ spinner.spin = "done"
    /\ spinner.idx >= 2

\* C18: stop() never raises and never blocks: it joins only a thread that
\* exists, so stop() without start() and a second stop() go through; inside
\* stop() the caller's next step can always be taken, whatever the thread
\* does; and create_card_for_meaning calls start() once and stop() once after
\* it, on success and on failure of generate_image, before generate_audio.
C18_StopIsSafe ==
    flow = "spinner" =>
        /\ spinner.in_stop = "join" => (spinner.thread /\ ENABLED Spinner_stop_join)
        /\ spinner.in_stop = "clear" => ENABLED Spinner_stop_clear
        /\ Calls("spinner.stop") => ENABLED Spinner_stop
        /\ spinner.returned
              = Cardinality({i \in 1..(spinner.ip - 1) : spinner.script[i] = "spinner.stop"})
        /\ \A img \in MediaOutcomes, aud \in MediaOutcomes, e \in CardExamples :
              LET m == [definition |-> <<"d">>, part_of_speech |-> <<"n">>, example |-> e,
                        example_blanked |-> <<>>, translation |-> <<"t">>]
                  calls == create_card_for_meaning(<<"a">>, m, "es", img, aud, "result").calls
                  at(name) == {i \in 1..Len(calls) : calls[i].call = name}
              IN  /\ at("spinner.start") = {1}
                  /\ at("spinner.stop") = {3}
                  /\ \A i \in at("generate_audio") : i > 3

\* stop() called twice on a Spinner that was never started, both returned.
C18_StoppedTwiceUnstarted ==
    /\ flow = "spinner"
    /\ ~spinner.thread
    /\ spinner.returned = 2

-----------------------------------------------------------------------------
(* Properties: parsing *)

\* The (word, hint) pair written on a data line: the line split on its first
\* '|', both parts trimmed; no hint when there is no '|'.
line_pair(line) ==
    LET s == strip(line)
        i == find(s, "|")
    IN  IF i = 0 THEN [word |-> s, hint |-> <<>>]
        ELSE [word |-> strip(SubSeq(s, 1, i - 1)), hint |-> strip(SubSeq(s, i + 1, Len(s)))]

\* C19: the item cmd_batch is resolving is the pair of the idx-th data line
\* of the file: its word is that line's word and its first lookup was made
\* with that line's own hint (with none when the line has none), also when
\* the headword is on several lines with different hints.
C19_ItemHasItsOwnHint ==
    (flow = "batch" /\ pc \in {"prompt", "retry", "create"}) =>
        LET data == SelectSeq(splitlines(startText), is_data_line)
        IN  /\ Len(words_to_process) = Len(data)
            /\ \A i \in 1..Len(data) : words_to_process[i] = line_pair(data[i]).word
            /\ word = line_pair(data[idx]).word
            /\ context_text(item.lookups[1]) = line_pair(data[idx]).hint

-----------------------------------------------------------------------------
(* The fallback blanking *)

\* Characters in an example sentence of the blanking runs.
MaxBlank == 3

\* "El Banco es grande"
BancoSentence ==
    <<"E", "l", " ", "B", "a", "n", "c", "o", " ", "e", "s", " ",
      "g", "r", "a", "n", "d", "e">>

\* The headwords of the blanking runs: either case, two words, two words
\* two spaces apart, a regex metacharacter, the scenario's word.
BlankWords ==
    {<<"a">>, <<"A">>, <<"a", " ", "b">>, <<"a", " ", " ", "b">>, <<"a", ".", "b">>,
     <<"b", "a", "n", "c", "o">>}

\* The example sentences of the blanking runs.
BlankExamples == seqs_upto({"a", "A", "b", " ", "."}, MaxBlank) \cup {BancoSentence}

\* cmd_add from the point where a meaning has been selected whose reply had
\* no blanked example, so that create_card_data blanks the example itself.
InitBlank ==
    /\ flow = "add"
    /\ lang \in Langs
    /\ context = None
    /\ word = <<"a">>
    /\ fileText = None
    /\ startText = None
    /\ prevCreated = {}
    /\ prevEnded = ""
    /\ pc = "create"
    /\ exitCode = -1
    /\ lines = <<>>
    /\ words_to_process = <<>>
    /\ words_with_hint = NoDict
    /\ idx = 0
    /\ current_context = None
    /\ \E w \in BlankWords, e \in BlankExamples :
          result = lookup_word(word, lang,
                       [word |-> w,
                        meanings |-> <<[definition |-> <<"d">>, part_of_speech |-> <<"n">>,
                                        example |-> e, example_blanked |-> <<>>,
                                        example_english |-> <<"t">>]>>])
    /\ selected = <<result.meanings[1]>>
    /\ created = <<>>
    /\ failed = <<>>
    /\ outcomes = <<>>
    /\ item = [NoItem EXCEPT !.lookups = <<None>>, !.prompted = TRUE, !.choice = <<>>,
                              !.result_word = result.word]
    /\ checked = FALSE
    /\ wrote = FALSE
    /\ card = <<>>
    /\ ended = ""
    /\ spinner = NoSpinner

NextBlank == cmd_add_create

\* The card of a meaning without blanked example, for every headword and
\* example.
SpecBlank == InitBlank /\ [][NextBlank]_vars

\* C20: in the blanked sentence of a card whose example was blanked by the
\* fallback, no occurrence of the headword is left, in whatever case the
\* sentence or the headword has it; a sentence without the headword, taken
\* character by character ('.' is a '.'), is unchanged; "El Banco es
\* grande" blanked for "banco" is "El ___ es grande"; and the blank is one
\* "___" for each whitespace-separated word of the headword, single spaces
\* between.
C20_FallbackBlanking ==
    (card # <<>> /\ selected[1].example_blanked = <<>>) =>
        LET w == card[1].note.word
            e == selected[1].example
            whole == card[1].note.sentence_blank
            out == IF lang = "en" THEN whole
                   ELSE SubSeq(whole, 1, Len(whole) - 1 - Len(selected[1].translation))
            occurs(s) == \E i \in 1..(Len(s) - Len(w) + 1) :
                             \A k \in 1..Len(w) : lower_char(s[i + k - 1]) = lower_char(w[k])
            n == Cardinality({i \in 1..Len(w) :
                                 /\ w[i] \notin whitespace
                                 /\ (i = 1 \/ w[i - 1] \in whitespace)})
            blank == create_blank_for_word(w)
        IN  /\ ~occurs(out)
            /\ ~occurs(e) => out = e
            /\ Len(e) = Len(w) /\ occurs(e) => out = blank
            /\ (w = <<"b", "a", "n", "c", "o">> /\ e = BancoSentence) =>
                  out = <<"E", "l", " ", "_", "_", "_", " ", "e", "s", " ",
                          "g", "r", "a", "n", "d", "e">>
            /\ Len(blank) = 4 * n - 1
            /\ \A i \in 1..Len(blank) : blank[i] = IF i % 4 = 0 THEN " " ELSE "_"

\* A card whose example has the headword in the other case, blanked.
C20_OtherCaseBlanked ==
    /\ card # <<>>
    /\ card[1].note.word = <<"a">>
    /\ selected[1].example = <<"b", "A", ".">>
    /\ lang = "en"
    /\ card[1].note.sentence_blank = <<"b", "_", "_", "_", ".">>

-----------------------------------------------------------------------------
(* Properties: the blanked sentence of the card *)

\* Whether b is e with spans of e replaced by `blank` and every other
\* character kept: a span is any non-empty stretch of e when any_span, else
\* an occurrence of `word` in either case; `done` says a span was replaced.
RECURSIVE derives(_, _, _, _, _, _)
derives(e, b, blank, w, any_span, done) ==
    IF e = <<>> THEN b = <<>> /\ done
    ELSE \/ /\ b # <<>>
            /\ Head(b) = Head(e)
            /\ derives(Tail(e), Tail(b), blank, w, any_span, done)
         \/ /\ Len(b) >= Len(blank)
            /\ SubSeq(b, 1, Len(blank)) = blank
            /\ \E j \in 1..Len(e) :
                  /\ any_span \/ /\ j = Len(w)
                                 /\ \A k \in 1..j : lower_char(e[k]) = lower_char(w[k])
                  /\ derives(SubSeq(e, j + 1, Len(e)), SubSeq(b, Len(blank) + 1, Len(b)),
                             blank, w, any_span, TRUE)

\* C21: the blanked sentence of a created card (before the translation
\* line) is the example with the headword span replaced by one "___" for each
\* word of the headword and nothing else altered; it is the lookup's
\* example_blanked verbatim when that is not empty and the fallback
\* replacement only when it is empty, and the fallback's output differs from
\* the example only at occurrences of the headword.
C21_BlankedDerivable ==
    (card # <<>> /\ words_of(card[1].note.word) # <<>>) =>
        LET w == card[1].note.word
            m == selected[1]
            whole == card[1].note.sentence_blank
            out == IF lang = "en" THEN whole
                   ELSE SubSeq(whole, 1, Len(whole) - 1 - Len(m.translation))
            blank == join(" ", [i \in 1..Len(words_of(w)) |-> <<"_", "_", "_">>])
        IN  /\ derives(m.example, out, blank, w, TRUE, FALSE)
            /\ m.example_blanked # <<>> => out = m.example_blanked
            /\ m.example_blanked = <<>> =>
                  (out = m.example \/ derives(m.example, out, blank, w, FALSE, FALSE))

-----------------------------------------------------------------------------
(* Properties: the selection *)

\* A numeral within [1, n].
valid_index(c, n) == int(c) # ValueError /\ 1 <= int(c) /\ int(c) <= n

\* 'r' at either prompt, 's' at the prompt of cmd_batch.
is_command(c, fl) == lower(c) = <<"r">> \/ (fl = "batch" /\ lower(c) = <<"s">>)

\* C23: a selected meaning is an element of the meanings of the latest lookup
\* result: the one at the index the user typed, which is within
\* [1, len(meanings)], or the only one when the user pressed Enter.  After an
\* input that is no command and no index in range (out of range, not a
\* number) nothing is selected, no lookup and no call is made, and the
\* command is at the prompt again with the same result.
C23_SelectionValid ==
    LET n == Len(result.meanings)
        c == item.choice
    IN  /\ selected # <<>> =>
              /\ n >= 1
              /\ result.word = item.result_word
              /\ IF c = <<>>
                 THEN n = 1 /\ selected[1] = result.meanings[1]
                 ELSE valid_index(c, n) /\ selected[1] = result.meanings[int(c)]
        /\ (/\ item.prompted
            /\ n >= 1
            /\ ~is_command(c, flow)
            /\ ~valid_index(c, n)
            /\ ~(c = <<>> /\ n = 1)) =>
              /\ selected = <<>>
              /\ item.calls = <<>>
              /\ pc = "prompt" \/ item.interrupted
              /\ Len(item.lookups) = 1 + item.retries
              /\ result.word = item.result_word

\* The second of two meanings chosen by its number, from the result of a
\* retry lookup.
C23_SecondOfTwoChosen ==
    /\ pc = "create"
    /\ item.choice = <<"2">>
    /\ item.retries >= 1
    /\ selected = <<result.meanings[2]>>


\* C24: a meaning is selected only by an accepting input at a prompt: Enter
\* when the result has exactly one meaning, a number in range when it has
\* several.  Nothing is selected before a prompt was answered; Enter with
\* several meanings selects nothing, a number with exactly one meaning
\* selects nothing, and a result of one meaning is still put to the user, who
\* may ask for a retry.
C24_NeverGuesses ==
    LET n == Len(result.meanings)
        c == item.choice
    IN  /\ selected # <<>> =>
              /\ item.prompted
              /\ c # None
              /\ n = 1 => c = <<>>
              /\ n > 1 => (c # <<>> /\ int(c) \in 1..n)
        /\ ~item.prompted => (selected = <<>> /\ pc # "create")
        /\ (item.prompted /\ n > 1 /\ c = <<>>) => (selected = <<>> /\ pc # "create")
        /\ (item.prompted /\ n = 1 /\ int(c) # ValueError) => (selected = <<>> /\ pc # "create")
        /\ (pc = "prompt" /\ n = 1 /\ Len(item.lookups) <= MaxRetries) =>
              \E raw \in RawChoices :
                  (IF flow = "batch" THEN batch_choice(raw, n) ELSE add_choice(raw, n)).kind = "retry"

\* The user asked for a retry when the result had exactly one meaning, in
\* cmd_add.
C24_RetriedTheOnlyMeaning ==
    /\ flow = "add"
    /\ pc = "lookup"
    /\ item.retries >= 1
    /\ Len(result.meanings) = 1
    /\ selected = <<>>

-----------------------------------------------------------------------------
(* Properties: the outcome lists *)

\* How often x is in the sequence s.
count(s, x) == Cardinality({i \in 1..Len(s) : s[i] = x})

\* C25: in cmd_batch every word gone through has exactly one entry in exactly
\* one of created and failed, so that at the summary len(created) +
\* len(failed) is the number of data lines of the file; a word is in created
\* if and only if add_note accepted its note, and in failed exactly when its
\* lookup raised, the result had no meanings, the user skipped it or the
\* store rejected the note.
C25_OutcomeAccounting ==
    flow = "batch" =>
        /\ Len(outcomes) = (IF pc \in {"lookup", "prompt", "retry", "create"} THEN idx - 1
                            ELSE IF pc = "summary" \/ ended = "complete"
                                 THEN Len(words_to_process)
                            ELSE Len(outcomes))
        /\ Len(created) = count(outcomes, "created")
        /\ Len(failed) = count(outcomes, "failed")
        /\ Len(created) + Len(failed) = Len(outcomes)
        /\ \A i \in 1..Len(words_to_process) :
              i <= Len(outcomes) =>
                  count(created, words_to_process[i]) + count(failed, words_to_process[i])
                      = count(SubSeq(words_to_process, 1, Len(outcomes)), words_to_process[i])
        /\ (pc = "summary" \/ ended = "complete") =>
              Len(created) + Len(failed)
                  = Len(SelectSeq(splitlines(startText), is_data_line))
        /\ (pc \in {"lookup", "summary"} /\ outcomes # <<>>) =>
              LET last == outcomes[Len(outcomes)]
                  skipped == item.prompted /\ lower(item.choice) = <<"s">>
              IN  /\ last = "created" <=> item.ret = "True"
                  /\ last = "created" =>
                        (created[Len(created)] = word /\ item.reason = "created")
                  /\ last = "failed" =>
                        (failed[Len(failed)] = word /\ item.ret \in {"", "False"})
                  /\ last = "failed" <=>
                        \/ item.raised
                        \/ item.reason = "no_meanings"
                        \/ skipped
                        \/ item.ret = "False"
                  /\ Cardinality({r \in {"raised", "none", "skipped", "rejected", "accepted"} :
                        \/ r = "raised" /\ item.raised
                        \/ r = "none" /\ item.reason = "no_meanings"
                        \/ r = "skipped" /\ skipped
                        \/ r = "rejected" /\ item.ret = "False"
                        \/ r = "accepted" /\ item.ret = "True"}) = 1

\* The summary reached with the first word created and the second rejected
\* by the store.
C25_CreatedThenRejected ==
    /\ flow = "batch"
    /\ pc = "summary"
    /\ outcomes = <<"created", "failed">>
    /\ item.ret = "False"

-----------------------------------------------------------------------------
(* Properties: the order of the calls *)

\* Where the calls of one collaborator stand among the calls made for the item.
at(name) == {i \in 1..Len(item.calls) : item.calls[i].call = name}

\* C26: cmd_batch takes the words one after another in file order: while a
\* word is being resolved it is the idx-th word of the file and the outcomes
\* of exactly the idx - 1 words before it are recorded, and no image, audio
\* or add-note call has been made for it.  The calls for an item are made
\* after a meaning was selected at the prompt, in the order image, audio,
\* add-note, one image call, at most one audio call and one add-note call; a
\* word that was skipped, whose lookup failed or that had no meanings has no
\* such call.
C26_CallOrder ==
    /\ (flow = "batch" /\ pc \in {"lookup", "prompt", "retry", "create"}) =>
          /\ idx \in 1..Len(words_to_process)
          /\ Len(outcomes) = idx - 1
    /\ (flow = "batch" /\ pc \in {"prompt", "retry", "create"}) =>
          /\ word = words_to_process[idx]
          /\ item.lookups # <<>>
          /\ item.calls = <<>>
    /\ pc = "create" => (selected # <<>> /\ item.calls = <<>>)
    /\ item.calls # <<>> =>
          /\ item.prompted
          /\ item.choice # None
          /\ ~is_command(item.choice, flow)
          /\ flow = "add" => selected # <<>>
          /\ Cardinality(at("generate_image")) = 1
          /\ Cardinality(at("generate_audio")) <= 1
          /\ Cardinality(at("add_note")) = 1
          /\ \A i \in at("generate_image"), j \in at("generate_audio") : i < j
          /\ \A i \in at("generate_image"), j \in at("add_note") : i < j
          /\ \A i \in at("generate_audio"), j \in at("add_note") : i < j
          /\ at("add_note") = {Len(item.calls)}
    /\ (item.raised \/ item.reason \in {"lookup_error", "no_meanings", "skip"}) =>
          item.calls = <<>>
    /\ (item.prompted /\ item.choice # None /\ lower(item.choice) = <<"s">> /\ flow = "batch") =>
          item.calls = <<>>

\* The second word of a file given its image, audio and note after the first
\* word was skipped.
C26_SecondWordAfterSkip ==
    /\ flow = "batch"
    /\ pc = "summary"
    /\ outcomes = <<"failed", "created">>
    /\ Cardinality(at("generate_audio")) = 1
    /\ Cardinality(at("add_note")) = 1

-----------------------------------------------------------------------------
(* Properties: the write of the batch file *)

\* C27: cmd_batch writes the file at most once, at the summary, after the
\* outcome of the last word is recorded, and only when a card was created:
\* once written the command has returned.  When the run ends early (no such
\* file, store unavailable, no data line), on an interrupt, and when a
\* complete run created no card, the file is never written and its text is
\* what it was.
C27_FileWrittenOnceAtEnd ==
    flow = "batch" =>
        /\ wrote =>
              /\ pc = "returned"
              /\ ended = "complete"
              /\ created # <<>>
              /\ Len(outcomes) = Len(words_to_process)
        /\ ~wrote => fileText = startText
        /\ ended \in {"early", "unavailable", "interrupt"} =>
              (~wrote /\ fileText = startText)
        /\ (ended = "complete" /\ created = <<>>) =>
              (~wrote /\ fileText = startText /\ exitCode = 1)
        /\ pc \notin {"returned", "raised"} => (~wrote /\ fileText = startText)

\* A complete run over two words that created no card.
C27_CompleteWithoutCard ==
    /\ flow = "batch"
    /\ ended = "complete"
    /\ created = <<>>
    /\ Len(failed) = 2
    /\ fileText = startText

-----------------------------------------------------------------------------
(* Properties: the checkpoint *)

\* The words of ws whose outcome in outs is `o`, in order.
RECURSIVE with_outcome(_, _, _)
with_outcome(ws, outs, o) ==
    IF ws = <<>> \/ outs = <<>> THEN <<>>
    ELSE (IF Head(outs) = o THEN <<Head(ws)>> ELSE <<>>)
         \o with_outcome(Tail(ws), Tail(outs), o)

\* C28: created and failed hold the words as the file spells them, also when
\* the card was made under another spelling the lookup gave back: the word
\* appended to created is the file's headword, not the card's word, so the
\* rewrite, which compares headwords of the file with created, drops the
\* item's line.
C28_CheckpointByFileSpelling ==
    flow = "batch" =>
        /\ created = with_outcome(words_to_process, outcomes, "created")
        /\ failed = with_outcome(words_to_process, outcomes, "failed")
        /\ (pc \in {"lookup", "summary"} /\ item.reason = "created") =>
              /\ created[Len(created)] = word
              /\ item.calls # <<>>
              /\ item.word = item.result_word
              /\ item.word # word =>
                    \A i \in 1..Len(words_to_process) : words_to_process[i] # item.word
              /\ \E i \in 1..Len(splitlines(startText)) :
                    /\ is_data_line(splitlines(startText)[i])
                    /\ line_pair(splitlines(startText)[i]).word = word
        /\ (ended = "complete" /\ created # <<>>) =>
              /\ wrote
              /\ \A i \in 1..Len(splitlines(fileText)) :
                    is_data_line(splitlines(fileText)[i]) =>
                        \A j \in 1..Len(created) :
                            line_pair(splitlines(fileText)[i]).word # created[j]

\* A card made under the spelling the lookup gave back, which is not the
\* file's, the word recorded as the file has it.
C28_NormalizedCardFileWord ==
    /\ flow = "batch"
    /\ pc = "summary"
    /\ item.reason = "created"
    /\ item.word # word
    /\ created[Len(created)] = word

-----------------------------------------------------------------------------
(* Termination *)

\* The user leaves a selection prompt: an accepting input, 's', 'r' with its
\* hint, or an interrupt.
LeavesPrompt ==
    /\ cmd_batch_prompt \/ cmd_add_prompt
    /\ pc' # "prompt"

\* The commands as the interpreter runs them once the words are in hand: a
\* step that can be taken is taken (every collaborator call returns or
\* raises), and the user, who may repeat an invalid input any number of
\* times, does leave each prompt; the retries asked for on one word are at
\* most MaxRetries.
Fairness ==
    /\ WF_vars(cmd_batch_lookup)
    /\ WF_vars(cmd_batch_retry)
    /\ WF_vars(cmd_batch_create)
    /\ WF_vars(cmd_batch_summary)
    /\ WF_vars(cmd_add_start)
    /\ WF_vars(cmd_add_lookup)
    /\ WF_vars(cmd_add_create)
    /\ WF_vars(LeavesPrompt)

SpecLive == Init /\ [][Next]_vars /\ Fairness

\* The word in hand is being resolved: LOOKUP, PRESENT or RETRY.
Resolving == pc \in {"lookup", "prompt", "retry"}

\* The steps of the resolver: LOOKUP -> PRESENT or ABANDONED, PRESENT ->
\* PRESENT again (invalid input), SELECTED, RETRY or ABANDONED, RETRY -> the
\* next LOOKUP, which in cmd_batch is made in the same step.
ResolverStep ==
    /\ (flow = "batch" /\ pc = "lookup") =>
          \/ pc' = "prompt" /\ idx' = idx
          \/ pc' \in {"lookup", "summary"} /\ outcomes' = Append(outcomes, "failed")
    /\ (flow = "batch" /\ pc = "prompt") =>
          \/ pc' = "prompt" /\ selected' = <<>> /\ item'.lookups = item.lookups
          \/ pc' = "create" /\ selected' # <<>>
          \/ pc' = "retry" /\ item'.retries = item.retries + 1
          \/ pc' \in {"lookup", "summary"} /\ outcomes' = Append(outcomes, "failed")
          \/ pc' = "returned" /\ ended' = "interrupt"
    /\ (flow = "batch" /\ pc = "retry") =>
          \/ pc' = "prompt" /\ Len(item'.lookups) = Len(item.lookups) + 1
          \/ pc' \in {"lookup", "summary"} /\ outcomes' = Append(outcomes, "failed")
    /\ (flow = "add" /\ pc = "lookup") =>
          \/ pc' = "prompt" /\ Len(item'.lookups) = Len(item.lookups) + 1
          \/ pc' = "returned" /\ ended' = "abandoned"
    /\ (flow = "add" /\ pc = "prompt") =>
          \/ pc' = "prompt" /\ selected' = <<>> /\ item'.lookups = item.lookups
          \/ pc' = "create" /\ selected' # <<>>
          \/ pc' = "lookup" /\ item'.retries = item.retries + 1
          \/ pc' = "returned" /\ ended' = "interrupt"

\* C29: the resolver goes LOOKUP -> PRESENT -> {SELECTED | RETRY -> LOOKUP |
\* ABANDONED}; with finitely many retries and invalid inputs and every
\* collaborator call returning or raising, the resolution of each word comes
\* to SELECTED or ABANDONED, and so a run of cmd_batch that has begun on its
\* words comes to the summary or returns on an interrupt; as long as the
\* retries are within the model's bound the prompt takes another 'r'.
C29_ResolverTerminates ==
    /\ [][ResolverStep]_vars
    /\ [](pc = "prompt" /\ Len(item.lookups) <= MaxRetries => ENABLED (LeavesPrompt /\ pc' \in {"retry", "lookup"} /\ item'.retries = item.retries + 1))
    /\ \A k \in 1..MaxLines :
          (flow = "batch" /\ idx = k /\ Resolving)
              ~> (pc = "create" \/ Len(outcomes) >= k \/ ended = "interrupt")
    /\ (flow = "add" /\ Resolving) ~> (pc = "create" \/ ended \in {"abandoned", "interrupt"})
    /\ (flow = "batch" /\ pc = "lookup") ~> (ended \in {"complete", "interrupt"})

=============================================================================
